---- MODULE Spec2Model ----
(***************************************************************************)
(* Breast-cancer classification service: the training script that writes   *)
(* the artifact bundle (model/train.py), the FastAPI inference service     *)
(* (api/fastapi_app/main.py) and the Flask form UI (api/flask_app/app.py). *)
(*                                                                         *)
(* Two specifications are given.                                           *)
(*   Spec       the artifact life cycle: training runs writing the three   *)
(*              files, and the module-level start-up of the two services.  *)
(*   SpecServe  the request handlers of the two services once start-up has *)
(*              completed.                                                 *)
(*                                                                         *)
(* Numbers.  A JSON number / Python float is a record [k, n]: k = "fin"    *)
(* for a finite value n, "nan" and "inf" for the non-finite floats that    *)
(* json.loads and float() both produce, and "str" for a JSON string that   *)
(* is not a number.  Probabilities are integers in millionths (0..10^6),   *)
(* so rounding to four decimals is rounding to a multiple of 100.          *)
(***************************************************************************)
EXTENDS Integers, Sequences, FiniteSets, TLC

\* ------------------------------------------------------------------ bounds
MaxRuns == 2          \* training runs performed
MaxRequests == 2      \* requests the API handles
MaxExtra == 1         \* how far a feature list's length may be off 30

\* --------------------------------------------------------------- constants
FeatureCount == 30    \* main.py:47, app.py:26
ScalerMean == 10      \* per-feature mean of the fitted StandardScaler
ProbUnit == 1000000   \* probability 1.0 in millionths
Round4Step == 100     \* 0.0001 in millionths: round(probability, 4)
ProbSlope == 12345    \* slope of the fitted probability calibration

FileSet == {"model", "scaler", "feature_names"}
Services == {"api", "ui"}
Builds == {"pydantic_v1", "pydantic_v2"}

\* ------------------------------------------------------------ float values
Fin(n) == [k |-> "fin", n |-> n]
NaN == [k |-> "nan", n |-> 0]
Inf == [k |-> "inf", n |-> 0]
Str == [k |-> "str", n |-> 0]

IsFloat(x) == x.k \in {"fin", "nan", "inf"}
IsFinite(x) == x.k = "fin"

Rep(x, n) == [i \in 1..n |-> x]
WithAt(s, i, x) == [j \in 1..Len(s) |-> IF j = i THEN x ELSE s[j]]

RECURSIVE SumFin(_)
SumFin(s) == IF s = <<>> THEN 0 ELSE Head(s).n + SumFin(Tail(s))

Ok(v) == [ok |-> TRUE, val |-> v, err |-> ""]
Raise(e) == [ok |-> FALSE, val |-> <<>>, err |-> e]

\* ------------------------------------------------ the fitted artifacts
\* StandardScaler fitted on the 30-column training matrix.  transform()
\* validates the input: the column count must equal n_features_in_, an
\* infinite entry is refused, NaN is passed through as a missing value.
NFeaturesIn == FeatureCount

\* faulty variant of ScalerTransform: the column count is not validated
ScalerTransformNoShapeCheck(x) ==
    IF \E i \in 1..Len(x) : x[i].k = "inf"
      THEN Raise("Input X contains infinity")
    ELSE Ok([i \in 1..Len(x) |->
              IF x[i].k = "fin" THEN Fin(x[i].n - ScalerMean) ELSE x[i]])

ScalerTransform(x) ==
    IF Len(x) # NFeaturesIn
      THEN Raise("X has a different number of features than StandardScaler is expecting")
    ELSE IF \E i \in 1..Len(x) : x[i].k = "inf"
      THEN Raise("Input X contains infinity")
    ELSE Ok([i \in 1..Len(x) |->
              IF x[i].k = "fin" THEN Fin(x[i].n - ScalerMean) ELSE x[i]])

\* SVC(probability=True) fitted on the scaled training matrix.  predict and
\* predict_proba validate their input (column count, no NaN, no infinity)
\* and are deterministic functions of it.
InferenceCheck(xs) ==
    IF Len(xs) # NFeaturesIn
      THEN Raise("X has a different number of features than SVC is expecting")
    ELSE IF \E i \in 1..Len(xs) : xs[i].k # "fin"
      THEN Raise("Input X contains NaN")
    ELSE Ok(SumFin(xs))

ModelPredict(xs) ==
    LET c == InferenceCheck(xs)
    IN  IF ~c.ok THEN c ELSE Ok(IF c.val > 0 THEN 0 ELSE 1)

Clamp(p) == IF p < 0 THEN 0 ELSE IF p > ProbUnit THEN ProbUnit ELSE p

ModelPredictProba(xs) ==
    LET c == InferenceCheck(xs)
    IN  IF ~c.ok THEN c ELSE Ok(Clamp((ProbUnit \div 2) - ProbSlope * c.val))

\* round(probability, 4): nearest multiple of 0.0001, ties to even
round4(p) ==
    LET q == p \div Round4Step
        r == p % Round4Step
    IN  IF 2 * r < Round4Step THEN q * Round4Step
        ELSE IF 2 * r > Round4Step THEN (q + 1) * Round4Step
        ELSE IF q % 2 = 0 THEN q * Round4Step ELSE (q + 1) * Round4Step

\* ------------------------------------------------- FastAPI: request schema
\* A JSON request body is an object with nkeys top-level keys, one of which
\* is "features".  len() of the parsed body is its number of keys.
Body(nkeys, features) == [nkeys |-> nkeys, features |-> features]
PyLen(v) == v.nkeys

\* PredictionRequest.validate_features
validate_features(v) ==
    IF PyLen(v) # FeatureCount
      THEN Raise("Exactly 30 features are required")
    ELSE Ok(v)

\* The declared field, features: List[float]: every element is coerced to
\* a float; NaN and infinity are floats.
FieldFeatures(v) ==
    IF \E i \in 1..Len(v.features) : ~IsFloat(v.features[i])
      THEN Raise("Input should be a valid number")
    ELSE Ok(v.features)

\* What the framework hands to the handler for a body.  __get_validators__
\* is the hook of a custom field type: pydantic 1 runs what it yields on
\* the value of the body parameter (the whole parsed body) in place of the
\* model's own validation and passes the returned value on as it is;
\* pydantic 2 builds the schema of a BaseModel from its fields and never
\* calls the hook.
PredictionRequest(build, body) ==
    IF build = "pydantic_v1"
      THEN LET r == validate_features(body)
           IN  IF ~r.ok THEN r
               ELSE Ok([hasFeatures |-> FALSE, features |-> <<>>])
    ELSE LET f == FieldFeatures(body)
         IN  IF ~f.ok THEN f
             ELSE Ok([hasFeatures |-> TRUE, features |-> f.val])

\* ----------------------------------------------------- FastAPI: metrics
Endpoints == {"/health", "/predict"}
Labels == {"malignant", "benign"}

\* faulty variant of Inc: the label is ignored, every child is incremented
IncAll(counter, key) == [k \in DOMAIN counter |-> counter[k] + 1]

Inc(counter, key) == [counter EXCEPT ![key] = @ + 1]

\* a call made by the handler: n the length of the vector passed (0 when
\* none is), ret the label or probability returned (-1 when none is)
Ev(op, n, ret) == [op |-> op, n |-> n, ret |-> ret]

NoResponse ==
    [status |-> 0, prediction |-> -1, diagnosis |-> "",
     probability_benign |-> -1, detail |-> <<>>]

\* ---------------------------------------------------- FastAPI: /predict
\* faulty variant of Diagnosis: the two words exchanged
DiagnosisSwapped(prediction) == IF prediction = 0 THEN "benign" ELSE "malignant"

Diagnosis(prediction) == IF prediction = 0 THEN "malignant" ELSE "benign"

\* faulty variant of OnException: the message is dropped
OnExceptionSilent(e) ==
    [NoResponse EXCEPT !.status = 500, !.detail = <<>>]

\* except Exception as e: raise HTTPException(status_code=500, ...)
OnException(e) ==
    [NoResponse EXCEPT !.status = 500, !.detail = <<"Prediction error: ", e>>]

\* faulty variant of TimedInference: the timer is entered after model.predict
TimedInferenceLateTimer(xs) ==
    LET p == ModelPredict(xs)
        q == ModelPredictProba(xs)
        n == Len(xs)
    IN  IF ~p.ok
          THEN [ok |-> FALSE, err |-> p.err, prediction |-> -1, probability |-> -1,
                trace |-> <<Ev("model.predict", n, IF p.ok THEN p.val ELSE -1)>>]
        ELSE IF ~q.ok
          THEN [ok |-> FALSE, err |-> q.err, prediction |-> -1, probability |-> -1,
                trace |-> <<Ev("model.predict", n, IF p.ok THEN p.val ELSE -1), Ev("timer.enter", 0, -1),
                            Ev("model.predict_proba", n, IF q.ok THEN q.val ELSE -1), Ev("timer.exit", 0, -1)>>]
        ELSE [ok |-> TRUE, err |-> "", prediction |-> p.val, probability |-> q.val,
              trace |-> <<Ev("model.predict", n, IF p.ok THEN p.val ELSE -1), Ev("timer.enter", 0, -1),
                          Ev("model.predict_proba", n, IF q.ok THEN q.val ELSE -1), Ev("timer.exit", 0, -1)>>]

\* with PREDICTION_LATENCY.time(): predict, then predict_proba.  The timer
\* observes on exit, also when the block is left by an exception.
TimedInference(xs) ==
    LET p == ModelPredict(xs)
        q == ModelPredictProba(xs)
        n == Len(xs)
    IN  IF ~p.ok
          THEN [ok |-> FALSE, err |-> p.err, prediction |-> -1, probability |-> -1,
                trace |-> <<Ev("timer.enter", 0, -1), Ev("model.predict", n, IF p.ok THEN p.val ELSE -1),
                            Ev("timer.exit", 0, -1)>>]
        ELSE IF ~q.ok
          THEN [ok |-> FALSE, err |-> q.err, prediction |-> -1, probability |-> -1,
                trace |-> <<Ev("timer.enter", 0, -1), Ev("model.predict", n, IF p.ok THEN p.val ELSE -1),
                            Ev("model.predict_proba", n, IF q.ok THEN q.val ELSE -1), Ev("timer.exit", 0, -1)>>]
        ELSE [ok |-> TRUE, err |-> "", prediction |-> p.val, probability |-> q.val,
              trace |-> <<Ev("timer.enter", 0, -1), Ev("model.predict", n, IF p.ok THEN p.val ELSE -1),
                          Ev("model.predict_proba", n, IF q.ok THEN q.val ELSE -1), Ev("timer.exit", 0, -1)>>]

Observations(trace) == Cardinality({i \in 1..Len(trace) : trace[i].op = "timer.exit"})

\* The handler: the new metrics, the response and the calls it made, in order.
predict(request, m) ==
    LET m0 == [m EXCEPT !.requests = Inc(@, "/predict")]
        t0 == <<Ev("REQUEST_COUNT.inc", 0, -1)>>
    IN  IF ~request.hasFeatures
          THEN [metrics |-> m0, trace |-> t0,
                resp |-> OnException("'dict' object has no attribute 'features'")]
        ELSE
        LET sc == ScalerTransform(request.features)
            t1 == Append(t0, Ev("scaler.transform", Len(request.features), -1))
        IN  IF ~sc.ok
              THEN [metrics |-> m0, trace |-> t1, resp |-> OnException(sc.err)]
            ELSE
            LET inf == TimedInference(sc.val)
                t2 == t1 \o inf.trace
                m1 == [m0 EXCEPT !.latency_count = @ + Observations(inf.trace)]
            IN  IF ~inf.ok
                  THEN [metrics |-> m1, trace |-> t2, resp |-> OnException(inf.err)]
                ELSE
                [metrics |-> [m1 EXCEPT !.predictions = Inc(@, Diagnosis(inf.prediction))],
                 trace |-> Append(t2, Ev("PREDICTION_COUNTER.inc", 0, -1)),
                 resp |-> [NoResponse EXCEPT
                             !.status = 200,
                             !.prediction = inf.prediction,
                             !.diagnosis = Diagnosis(inf.prediction),
                             !.probability_benign = round4(inf.probability)]]

\* A request the schema refuses never enters the handler: 422, no metric.
Unprocessable(e) == [NoResponse EXCEPT !.status = 422, !.detail = <<"detail", e>>]

\* ------------------------------------------------------ Flask: POST /
DecimalStrings == ("9" :> 9) @@ ("11" :> 11) @@ ("12" :> 12)

\* float(s)
PyFloat(s) ==
    IF s = "nan" THEN Ok(NaN)
    ELSE IF s = "inf" THEN Ok(Inf)
    ELSE IF s \in DOMAIN DecimalStrings THEN Ok(Fin(DecimalStrings[s]))
    ELSE Raise("could not convert string to float")

\* for i in range(30): val = float(request.form[f"feature{i}"])
RECURSIVE Collect(_, _, _)
Collect(form, i, features) ==
    IF i = FeatureCount THEN Ok(features)
    ELSE IF i \notin DOMAIN form THEN Raise("400 Bad Request: KeyError")
    ELSE LET val == PyFloat(form[i])
         IN  IF ~val.ok THEN val
             ELSE Collect(form, i + 1, Append(features, val.val))

NoResult ==
    [kind |-> "none", prediction |-> -1, diagnosis |-> "",
     probability_benign |-> -1, err |-> ""]

UiError(e) == [NoResult EXCEPT !.kind = "error", !.diagnosis = "Error: ", !.err = e]

\* faulty variant of UiDiagnosis: the two words exchanged
UiDiagnosisSwapped(prediction) == IF prediction = 0 THEN "Benign" ELSE "Malignant"

UiDiagnosis(prediction) == IF prediction = 0 THEN "Malignant" ELSE "Benign"

index(method, form) ==
    IF method # "POST" THEN NoResult
    ELSE
    LET c == Collect(form, 0, <<>>)
    IN  IF ~c.ok THEN UiError(c.err)
        ELSE
        LET sc == ScalerTransform(c.val)
        IN  IF ~sc.ok THEN UiError(sc.err)
            ELSE
            LET p == ModelPredict(sc.val)
                q == ModelPredictProba(sc.val)
            IN  IF ~p.ok THEN UiError(p.err)
                ELSE IF ~q.ok THEN UiError(q.err)
                ELSE [NoResult EXCEPT
                        !.kind = "result",
                        !.prediction = p.val,
                        !.diagnosis = UiDiagnosis(p.val),
                        !.probability_benign = q.val]

\* ------------------------------------------------------- artifact files
\* Content of a file of the bundle, and of a loaded artifact: the number of
\* the training run that wrote it.
Missing == 0
Corrupt == -1

\* faulty variant of joblib_load: a missing file yields an empty artifact
joblib_loadLenient(d, f) ==
    IF d[f] = Corrupt THEN Raise("EOFError") ELSE Ok(d[f])

\* joblib.load(path)
joblib_load(d, f) ==
    IF d[f] = Missing THEN Raise("FileNotFoundError")
    ELSE IF d[f] = Corrupt THEN Raise("EOFError")
    ELSE Ok(d[f])

\* joblib.dump(obj, path) by training run r
joblib_dump(d, f, r) == [d EXCEPT ![f] = r]

\* ------------------------------------------------------------ the state
VARIABLES
    build,      \* the pydantic major version the API is installed with
    disk,       \* model directory: file -> content
    trainPc,    \* position of the training script
    run,        \* number of the current (or last) training run
    svc,        \* per service process: position, loaded artifacts, loads made
    metrics,    \* REQUEST_COUNT, PREDICTION_COUNTER, PREDICTION_LATENCY
    apiLast,    \* the API's last request: body, response, calls made
    uiLast,     \* the form UI's last request: method, form, rendered result
    tally       \* what the API's clients have seen: requests, 200s, 422s, 500s

vars == <<build, disk, trainPc, run, svc, metrics, apiLast, uiLast, tally>>

NoArtifacts == [f \in FileSet |-> Missing]
Process(pc, loaded, loads) == [pc |-> pc, loaded |-> loaded, loads |-> loads]
Down == Process("down", NoArtifacts, [f \in FileSet |-> 0])

ZeroMetrics ==
    [requests |-> [e \in Endpoints |-> 0],
     predictions |-> [l \in Labels |-> 0],
     latency_count |-> 0]

NoApiRequest ==
    [kind |-> "none", body |-> Body(0, <<>>), resp |-> NoResponse, trace |-> <<>>]
NoUiRequest == [method |-> "none", form |-> <<>>, result |-> NoResult]
ZeroTally == [requests |-> 0, ok |-> 0, rejected |-> 0, failed |-> 0]

\* A fresh checkout: no artifact written, nothing running.
Init ==
    /\ build \in Builds
    /\ disk = NoArtifacts
    /\ trainPc = "idle"
    /\ run = 0
    /\ svc = [p \in Services |-> Down]
    /\ metrics = ZeroMetrics
    /\ apiLast = NoApiRequest
    /\ uiLast = NoUiRequest
    /\ tally = ZeroTally

\* ------------------------------------------------------------ train.py
DumpStep == ("dump_model" :> "model") @@ ("dump_scaler" :> "scaler")
            @@ ("dump_features" :> "feature_names")
AfterDump == ("dump_model" :> "dump_scaler") @@ ("dump_scaler" :> "dump_features")
             @@ ("dump_features" :> "idle")

\* lines 12-40: load the dataset, split, fit the scaler and the classifier
TrainFit ==
    /\ trainPc = "idle"
    /\ run < MaxRuns
    /\ run' = run + 1
    /\ trainPc' = "dump_model"
    /\ UNCHANGED <<build, disk, svc, metrics, apiLast, uiLast, tally>>

\* lines 43, 44, 45: one joblib.dump, written in place
Dump ==
    /\ trainPc \in DOMAIN DumpStep
    /\ disk' = joblib_dump(disk, DumpStep[trainPc], run)
    /\ trainPc' = AfterDump[trainPc]
    /\ UNCHANGED <<build, run, svc, metrics, apiLast, uiLast, tally>>

\* The script stops before or during the dump it has reached (an exception,
\* a kill, a full disk).  A dump interrupted part-way leaves a truncated file.
TrainStop ==
    /\ trainPc \in DOMAIN DumpStep
    /\ \E partial \in BOOLEAN :
         disk' = IF partial THEN [disk EXCEPT ![DumpStep[trainPc]] = Corrupt] ELSE disk
    /\ trainPc' = "idle"
    /\ UNCHANGED <<build, run, svc, metrics, apiLast, uiLast, tally>>

\* ----------------------------------- main.py 51-71, app.py 11-17: start-up
LoadStep == ("load_model" :> "model") @@ ("load_scaler" :> "scaler")
            @@ ("load_features" :> "feature_names")
AfterLoad == ("load_model" :> "load_scaler") @@ ("load_scaler" :> "load_features")
             @@ ("load_features" :> "serving")

\* a new process begins to import the module
Start(p) ==
    /\ svc[p].pc \in {"down", "aborted"}
    /\ svc' = [svc EXCEPT ![p] = Process("load_model", NoArtifacts, [f \in FileSet |-> 0])]
    /\ UNCHANGED <<build, disk, trainPc, run, metrics, apiLast, uiLast, tally>>

\* one joblib.load; an exception leaves the module (re-raised by main.py's
\* except clause, uncaught in app.py) and the import, hence the process, ends
Load(p) ==
    /\ svc[p].pc \in DOMAIN LoadStep
    /\ LET f == LoadStep[svc[p].pc]
           r == joblib_load(disk, f)
       IN  svc' = [svc EXCEPT ![p] =
                     IF r.ok
                       THEN Process(AfterLoad[svc[p].pc],
                                    [svc[p].loaded EXCEPT ![f] = r.val],
                                    [svc[p].loads EXCEPT ![f] = @ + 1])
                     ELSE Process("aborted", svc[p].loaded, svc[p].loads)]
    /\ UNCHANGED <<build, disk, trainPc, run, metrics, apiLast, uiLast, tally>>

Next ==
    \/ TrainFit
    \/ Dump
    \/ TrainStop
    \/ \E p \in Services : Start(p)
    \/ \E p \in Services : Load(p)

Spec == Init /\ [][Next]_vars

\* ------------------------------------------------------------- serving
\* The requests sent.  A feature list is 0 or about 30 copies of one value,
\* its first entry possibly replaced by another value, by NaN, by Infinity
\* or by a string; a form has one field per feature, the first possibly
\* changed likewise or absent.
Lens == {0} \cup ((FeatureCount - MaxExtra)..(FeatureCount + MaxExtra))
BaseValues == {9, 11}
OddValues == {Fin(12), NaN, Inf, Str}

FeatureLists ==
    {Rep(Fin(b), n) : b \in BaseValues, n \in Lens}
    \cup {WithAt(Rep(Fin(b), n), 1, x) :
            b \in BaseValues, n \in Lens \ {0}, x \in OddValues}

Bodies ==
    {Body(1, fl) : fl \in FeatureLists}
    \cup {Body(FeatureCount, Rep(Fin(b), FeatureCount)) : b \in BaseValues}

BaseStrings == {"9", "11"}
OddStrings == {"12", "nan", "inf", "abc"}
Fields == 0..(FeatureCount - 1)

Forms ==
    {[i \in Fields |-> b] : b \in BaseStrings}
    \cup {[i \in Fields |-> IF i = 0 THEN x ELSE b] : b \in BaseStrings, x \in OddStrings}
    \cup {[i \in Fields \ {0} |-> b] : b \in BaseStrings}

Loaded(r) == Process("serving", [f \in FileSet |-> r], [f \in FileSet |-> 1])

\* Both services have started from the bundle of the first training run.
InitServe ==
    /\ build \in Builds
    /\ disk = [f \in FileSet |-> 1]
    /\ trainPc = "idle"
    /\ run = 1
    /\ svc = [p \in Services |-> Loaded(1)]
    /\ metrics = ZeroMetrics
    /\ apiLast = NoApiRequest
    /\ uiLast = NoUiRequest
    /\ tally = ZeroTally

\* main.py 80-87: GET /health
health_check ==
    /\ svc["api"].pc = "serving"
    /\ tally.requests < MaxRequests
    /\ metrics' = [metrics EXCEPT !.requests = Inc(@, "/health")]
    /\ apiLast' = [kind |-> "health", body |-> Body(0, <<>>),
                   resp |-> [NoResponse EXCEPT !.status = 200],
                   trace |-> <<Ev("REQUEST_COUNT.inc", 0, -1)>>]
    /\ tally' = [tally EXCEPT !.requests = @ + 1]
    /\ UNCHANGED <<build, disk, trainPc, run, svc, uiLast>>

\* main.py 38-49, 90-114: POST /predict.  The body is validated against the
\* schema first; the handler runs only on a body the schema accepts.
Predict(body) ==
    /\ svc["api"].pc = "serving"
    /\ tally.requests < MaxRequests
    /\ LET request == PredictionRequest(build, body)
       IN  IF ~request.ok
             THEN /\ metrics' = metrics
                  /\ apiLast' = [kind |-> "predict", body |-> body,
                                 resp |-> Unprocessable(request.err), trace |-> <<>>]
                  /\ tally' = [tally EXCEPT !.requests = @ + 1, !.rejected = @ + 1]
           ELSE LET h == predict(request.val, metrics)
                IN  /\ metrics' = h.metrics
                    /\ apiLast' = [kind |-> "predict", body |-> body,
                                   resp |-> h.resp, trace |-> h.trace]
                    /\ tally' = [tally EXCEPT
                                   !.requests = @ + 1,
                                   !.ok = IF h.resp.status = 200 THEN @ + 1 ELSE @,
                                   !.failed = IF h.resp.status = 200 THEN @ ELSE @ + 1]
    /\ UNCHANGED <<build, disk, trainPc, run, svc, uiLast>>

\* app.py 19-44: GET / and POST /
Index(method, form) ==
    /\ svc["ui"].pc = "serving"
    /\ uiLast' = [method |-> method, form |-> form, result |-> index(method, form)]
    /\ UNCHANGED <<build, disk, trainPc, run, svc, metrics, apiLast, tally>>

NextServe ==
    \/ health_check
    \/ \E body \in Bodies : Predict(body)
    \/ Index("GET", <<>>)
    \/ \E form \in Forms : Index("POST", form)

SpecServe == InitServe /\ [][NextServe]_vars

\* ================================================================ claims
Has(trace, op) == \E i \in 1..Len(trace) : trace[i].op = op
Count(trace, op) == Cardinality({i \in 1..Len(trace) : trace[i].op = op})
Pos(trace, op) == CHOOSE i \in 1..Len(trace) : trace[i].op = op
ModelCalls == {"model.predict", "model.predict_proba"}

Sent == apiLast.kind = "predict"
Features == apiLast.body.features
WrongCount == Len(Features) # FeatureCount
ThirtyFinite ==
    /\ Len(Features) = FeatureCount
    /\ \A i \in 1..Len(Features) : IsFinite(Features[i])
Status == apiLast.resp.status
ClientError == Status \in 400..499

SumOver(counter) == counter["malignant"] + counter["benign"]

\* a step in which the API answers a request
ApiStep == tally'.requests = tally.requests + 1

\* C1: in every state, whatever requests came before, the calls the last
\* /predict request made to model.predict and model.predict_proba were on
\* vectors of exactly 30 entries, and a request whose feature list has
\* another length made no such call and got no prediction.
C1_ModelNeverSeesWrongLength ==
    Sent =>
      /\ \A i \in 1..Len(apiLast.trace) :
           apiLast.trace[i].op \in ModelCalls => apiLast.trace[i].n = FeatureCount
      /\ WrongCount =>
           /\ Status # 200
           /\ \A i \in 1..Len(apiLast.trace) : apiLast.trace[i].op \notin ModelCalls

\* a list of 29 values reached the handler and was stopped at the scaler
C1_Witness ==
    /\ Sent
    /\ Len(Features) = FeatureCount - 1
    /\ Has(apiLast.trace, "scaler.transform")
    /\ Status # 200

\* C2: a /predict request whose features are not exactly 30 finite numbers
\* is answered with a 4xx status.
C2_BadInputIsClientError ==
    (Sent /\ ~ThirtyFinite) => ClientError

\* C3: a step that answers a /predict request with a wrong feature count
\* answers with a 4xx status, leaves app_predictions_total unchanged and
\* adds exactly one to app_requests_total{endpoint="/predict"}.
C3_WrongCountStillCounted ==
    [][(ApiStep /\ Sent' /\ WrongCount') =>
         /\ ClientError'
         /\ metrics'.predictions = metrics.predictions
         /\ metrics'.requests["/predict"] = metrics.requests["/predict"] + 1]_vars

\* C4 (as stated): with N the number of /predict calls that returned a
\* prediction, app_predictions_total summed over the labels is N and
\* app_requests_total{endpoint="/predict"} is N.
C4_RequestsEqualPredictions ==
    /\ SumOver(metrics.predictions) = tally.ok
    /\ metrics.requests["/predict"] = tally.ok

\* C4 (amended): app_predictions_total summed over the labels is N, and
\* app_requests_total{endpoint="/predict"} is N plus the number of /predict
\* requests answered with a server error; requests the schema refused are
\* counted by neither.
C4_RequestsCountFailuresToo ==
    /\ SumOver(metrics.predictions) = tally.ok
    /\ metrics.requests["/predict"] = tally.ok + tally.failed
    /\ metrics.requests["/predict"] >= tally.ok

C4_Witness ==
    /\ tally.ok = 1
    /\ tally.failed = 1
    /\ metrics.requests["/predict"] = 2

AllLoaded(p) ==
    \A f \in FileSet : svc[p].loaded[f] \notin {Missing, Corrupt} /\ svc[p].loads[f] = 1

\* C5: a service process that is serving has loaded each of the three
\* artifacts, each exactly once; a load step that finds its file missing or
\* unreadable ends the process, and an ended process never serves: only a
\* new process, starting again at the first load, follows it.
C5_NoServingWithoutArtifacts ==
    [][\A p \in Services :
         /\ (svc[p].pc = "serving")' => AllLoaded(p)'
         /\ (/\ svc[p].pc \in DOMAIN LoadStep
             /\ svc'[p] # svc[p]
             /\ disk[LoadStep[svc[p].pc]] \in {Missing, Corrupt})
            => svc'[p].pc = "aborted"
         /\ (svc[p].pc = "aborted" /\ svc'[p] # svc[p])
            => svc'[p] = Process("load_model", NoArtifacts, [f \in FileSet |-> 0])]_vars

\* the API found model and scaler and stopped at a missing or truncated
\* feature_names file, while the form UI is up
C5_Witness ==
    /\ svc["api"].pc = "aborted"
    /\ svc["api"].loads["scaler"] = 1
    /\ svc["api"].loads["feature_names"] = 0
    /\ svc["ui"].pc = "serving"

\* what scaling and inference do on a feature list
Pipeline(fl) ==
    LET sc == ScalerTransform(fl)
    IN  IF ~sc.ok THEN sc
        ELSE LET p == ModelPredict(sc.val)
                 q == ModelPredictProba(sc.val)
             IN  IF ~p.ok THEN p ELSE IF ~q.ok THEN q
                 ELSE Ok([prediction |-> p.val, probability |-> q.val])

\* the answer to a body from a service that has handled nothing yet
FreshAnswer(body) ==
    LET request == PredictionRequest(build, body)
    IN  IF ~request.ok THEN Unprocessable(request.err)
        ELSE predict(request.val, ZeroMetrics).resp

\* C6: in every state of the serving service, if scaling or inference
\* raised on the last /predict request, that request was answered 500 with
\* the exception's message; whatever was handled before, both processes are
\* still serving with the artifacts they loaded at start-up, and the answer
\* to the last request is the one a service that had handled no request
\* before would give.
C6_InferenceErrorIsPerRequest ==
    /\ svc = [p \in Services |-> Loaded(1)]
    /\ Sent =>
         /\ (Has(apiLast.trace, "scaler.transform") /\ ~Pipeline(Features).ok)
            => /\ Status = 500
               /\ apiLast.resp.detail = <<"Prediction error: ", Pipeline(Features).err>>
               /\ Pipeline(Features).err # ""
         /\ apiLast.resp = FreshAnswer(apiLast.body)

\* a prediction returned after an earlier request failed with 500
C6_Witness ==
    /\ tally.failed = 1
    /\ tally.ok = 1
    /\ Sent
    /\ Status = 200

Mixed(d) == \E f, g \in FileSet : d[f] >= 1 /\ d[g] >= 1 /\ d[f] # d[g]

\* C7: once the training script has stopped, the files in the model
\* directory are not from two different training runs, and a serving
\* process has not loaded artifacts of two different runs.
C7_BundleNeverMixed ==
    /\ trainPc = "idle" => ~Mixed(disk)
    /\ \A p \in Services : svc[p].pc = "serving" => ~Mixed(svc[p].loaded)

UiPosted == uiLast.method = "POST"
UiValues == Collect(uiLast.form, 0, <<>>)
\* the form and the API were last given the same 30 values
SameValues ==
    /\ Sent
    /\ UiPosted
    /\ UiValues.ok
    /\ UiValues.val = Features

Capitalized == ("malignant" :> "Malignant") @@ ("benign" :> "Benign")

\* C8 (as stated): when the API returned a prediction for the values the
\* form was given, the form shows the same raw label, the same diagnosis
\* string and the same benign probability.
C8_FormShowsWhatApiReturns ==
    (SameValues /\ Status = 200) =>
      /\ uiLast.result.kind = "result"
      /\ uiLast.result.prediction = apiLast.resp.prediction
      /\ uiLast.result.diagnosis = apiLast.resp.diagnosis
      /\ uiLast.result.probability_benign = apiLast.resp.probability_benign

\* C8 (amended): when the API returned a prediction for the values the form
\* was given, the form shows the same raw label, the API's diagnosis word
\* capitalised, and the unrounded benign probability of which the API's
\* value is the rounding to four decimals; a submission with a missing or
\* non-numeric field, or on which scaling or inference raises, is rendered
\* as an "Error: ..." string with no label and no probability.
C8_FormAgreesUpToPresentation ==
    /\ (SameValues /\ Status = 200) =>
         /\ uiLast.result.kind = "result"
         /\ uiLast.result.prediction = apiLast.resp.prediction
         /\ uiLast.result.diagnosis = Capitalized[apiLast.resp.diagnosis]
         /\ round4(uiLast.result.probability_benign) = apiLast.resp.probability_benign
    /\ (UiPosted /\ (~UiValues.ok \/ ~Pipeline(UiValues.val).ok)) =>
         /\ uiLast.result.kind = "error"
         /\ uiLast.result.diagnosis = "Error: "
         /\ uiLast.result.err # ""
         /\ uiLast.result.prediction = -1
         /\ uiLast.result.probability_benign = -1
    /\ (UiPosted /\ UiValues.ok /\ Pipeline(UiValues.val).ok) =>
         /\ uiLast.result.kind = "result"
         /\ uiLast.result.diagnosis \in {"Malignant", "Benign"}
         /\ uiLast.result.diagnosis = "Malignant" <=> uiLast.result.prediction = 0

\* both were given the same values, the label is 0, and the two reported
\* probabilities differ
C8_Witness ==
    /\ SameValues
    /\ Status = 200
    /\ uiLast.result.kind = "result"
    /\ uiLast.result.prediction = 0
    /\ uiLast.result.probability_benign # apiLast.resp.probability_benign

Returned(trace, op) == trace[Pos(trace, op)].ret

\* C9: a step that answers a /predict request with 30 finite values on
\* which model.predict returned a label in {0,1} answers 200 with that
\* label as prediction, with diagnosis "malignant" exactly when the label
\* is 0 and "benign" exactly when it is 1, and adds one to
\* app_predictions_total for the label equal to the returned diagnosis and
\* nothing for the other label.
C9_LabelDiagnosisCounter ==
    [][(/\ ApiStep
        /\ Sent'
        /\ ThirtyFinite'
        /\ Has(apiLast.trace, "model.predict")'
        /\ Returned(apiLast.trace, "model.predict")' \in {0, 1})
       => /\ Status' = 200
          /\ apiLast'.resp.prediction = Returned(apiLast.trace, "model.predict")'
          /\ apiLast'.resp.diagnosis = "malignant" <=> apiLast'.resp.prediction = 0
          /\ apiLast'.resp.diagnosis = "benign" <=> apiLast'.resp.prediction = 1
          /\ \A l \in Labels :
               metrics'.predictions[l] =
                 metrics.predictions[l] + (IF l = apiLast'.resp.diagnosis THEN 1 ELSE 0)]_vars

\* a malignant prediction counted after a benign one
C9_Witness ==
    /\ Sent
    /\ Status = 200
    /\ apiLast.resp.prediction = 0
    /\ apiLast.resp.diagnosis = "malignant"
    /\ metrics.predictions = [malignant |-> 1, benign |-> 1]

Before(trace, a, b) == Has(trace, a) /\ Has(trace, b) /\ Pos(trace, a) < Pos(trace, b)

\* C10 (as stated): for a /predict request that returned a prediction, the
\* timed interval starts before scaler.transform is applied and ends after
\* model.predict_proba has returned.
C10_TimerCoversScaling ==
    (Sent /\ Status = 200) =>
      /\ Before(apiLast.trace, "timer.enter", "scaler.transform")
      /\ Before(apiLast.trace, "model.predict_proba", "timer.exit")

\* C10 (amended): a /predict request on which scaler.transform returned
\* records exactly one observation, timed from after scaler.transform has
\* returned and before model.predict is called until model.predict and
\* model.predict_proba have returned or one of them has raised, so that
\* every call to the model and no call to the scaler falls inside it; a
\* request the schema refuses or on which scaling raises records none.
C10_TimerCoversInferenceOnly ==
    Sent =>
      IF Has(apiLast.trace, "scaler.transform") /\ ScalerTransform(Features).ok
        THEN /\ Count(apiLast.trace, "timer.enter") = 1
             /\ Count(apiLast.trace, "timer.exit") = 1
             /\ Before(apiLast.trace, "scaler.transform", "timer.enter")
             /\ Before(apiLast.trace, "timer.enter", "model.predict")
             /\ \A i \in 1..Len(apiLast.trace) :
                  apiLast.trace[i].op \in ModelCalls =>
                    /\ Pos(apiLast.trace, "timer.enter") < i
                    /\ i < Pos(apiLast.trace, "timer.exit")
      ELSE /\ ~Has(apiLast.trace, "timer.enter")
           /\ ~Has(apiLast.trace, "timer.exit")

\* a returned prediction whose observation began after the scaling
C10_Witness ==
    /\ Sent
    /\ Status = 200
    /\ Before(apiLast.trace, "scaler.transform", "timer.enter")
    /\ Before(apiLast.trace, "model.predict_proba", "timer.exit")
    /\ metrics.latency_count = 1

====
